---- MODULE Spec2Model ----
(***************************************************************************)
(* Model of the review router, app/routers/reviews.py: the four handlers   *)
(* get_all_reviews, get_reviews_by_product, create_reviews and             *)
(* delete_reviews over the reviews and products tables.                    *)
(*                                                                         *)
(* Spec      : every handler runs to completion before the next one starts *)
(* SpecConc  : create/delete requests interleave at their awaits           *)
(* SpecFail  : one request at a time, and a request in flight may fail     *)
(***************************************************************************)
EXTENDS Integers, Sequences, FiniteSets

VARIABLES reviews, products, resp, pc, loc, okDeletes

vars == <<reviews, products, resp, pc, loc, okDeletes>>

\* ---------------------------------------------------------------- bounds
MaxReviews == 2
MaxTime == 1
NProcs == 2

\* ------------------------------------------------------ program constants
MinGrade == 1
MaxGrade == 5
HTTP_200_OK == 200
HTTP_201_CREATED == 201
HTTP_403_FORBIDDEN == 403
HTTP_404_NOT_FOUND == 404
HTTP_422_UNPROCESSABLE_CONTENT == 422

\* ------------------------------------------------------------ input sets
Users ==
    { [id |-> 1, role |-> "buyer"], [id |-> 2, role |-> "admin"] }
NoUser == [id |-> 0, role |-> "anonymous"]
ProductIds == {1, 2, 3}
ProductInputs == {1, 2, 3, 4}
GradeInputs == {-1, 0, 1, 5, 6}
Comments == {"ok"}
ReviewIdInputs == 1 .. (MaxReviews + 1)
Procs == 1 .. NProcs
\* the requests that are made to interleave
ConcProductInputs == {1, 2}
ConcGradeInputs == {1, 5, 6}
\* the requests that are made to fail
FailProductInputs == {1, 3}

\* -------------------------------------------------------------- rationals
RECURSIVE GCD(_, _)
GCD(a, b) == IF b = 0 THEN a ELSE GCD(b, a % b)

Frac(n, d) == LET g == GCD(n, d) IN <<n \div g, d \div g>>

None == <<>>
Zero == <<0, 1>>

RECURSIVE SumGrades(_, _)
SumGrades(revs, S) ==
    IF S = {} THEN 0
    ELSE LET i == CHOOSE x \in S : TRUE
         IN revs[i].grade + SumGrades(revs, S \ {i})

\* ------------------------------------------------------- database queries
\* select(ProductModel).where(id == product_id, is_active == True).first()
ActiveProduct(prods, pid) == pid \in DOMAIN prods /\ prods[pid].is_active

\* select(ReviewModel).where(id == review_id, is_active == True).first()
ActiveReview(revs, rid) == rid \in DOMAIN revs /\ revs[rid].is_active

\* where(ReviewModel.is_active == True)
AllActiveNoFilter(revs) == DOMAIN revs
AllActive(revs) == {i \in DOMAIN revs : revs[i].is_active}

\* where(ReviewModel.product_id == product_id, ReviewModel.is_active == True)
ActiveOf(revs, pid) ==
    {i \in DOMAIN revs : revs[i].product_id = pid /\ revs[i].is_active}

\* select(func.avg(ReviewModel.grade)).where(...) : NULL over no rows
AvgGradeAllRows(revs, pid) ==
    LET S == {i \in DOMAIN revs : revs[i].product_id = pid}
    IN IF S = {} THEN None ELSE Frac(SumGrades(revs, S), Cardinality(S))
AvgGrade(revs, pid) ==
    LET S == ActiveOf(revs, pid)
    IN IF S = {} THEN None ELSE Frac(SumGrades(revs, S), Cardinality(S))

\* result.scalar() or 0.0
OrZero(x) == IF x = None THEN Zero ELSE IF x[1] = 0 THEN Zero ELSE x

\* the rows of S in any order (a query without ORDER BY)
AnyOrder(revs, S) ==
    {[i \in 1 .. Cardinality(S) |-> revs[f[i]]] :
        f \in {g \in [1 .. Cardinality(S) -> S] :
                 \A a, b \in 1 .. Cardinality(S) : a # b => g[a] # g[b]}}

\* .order_by(ReviewModel.comment_date.desc())
OrderByDateAsc(revs, S) ==
    {s \in AnyOrder(revs, S) :
        \A i \in 1 .. (Len(s) - 1) : s[i].comment_date <= s[i + 1].comment_date}
OrderByDateDesc(revs, S) ==
    {s \in AnyOrder(revs, S) :
        \A i \in 1 .. (Len(s) - 1) : s[i].comment_date >= s[i + 1].comment_date}

\* comment_date: the server clock at the insert, never behind a stored date
Now(revs) ==
    {d \in 0 .. MaxTime : \A i \in DOMAIN revs : revs[i].comment_date <= d}

\* ------------------------------------------------------ database writes
\* ReviewModel(...); db.add(new_review); db.commit(); db.refresh(new_review)
InsertReview(revs, c, g, uid, pid, d) ==
    Append(revs, [id |-> Len(revs) + 1, comment |-> c, grade |-> g,
                  user_id |-> uid, product_id |-> pid, comment_date |-> d,
                  is_active |-> TRUE])

\* update(ReviewModel).where(ReviewModel.id == review_id).values(is_active=False)
SoftDeleteNoWhere(revs, rid) ==
    [i \in DOMAIN revs |-> [revs[i] EXCEPT !.is_active = FALSE]]
SoftDelete(revs, rid) == [revs EXCEPT ![rid].is_active = FALSE]

\* product = db.get(ProductModel, product_id); product.rating = avg; db.commit()
SetRating(prods, pid, avg) == [prods EXCEPT ![pid].rating = avg]

\* ------------------------------------------------------ handler outcomes
\* the checks of create_reviews, in the order the handler makes them
CreateStatusNoRoleCheck(u, pid, g) ==
    IF ~ActiveProduct(products, pid) THEN HTTP_404_NOT_FOUND
    ELSE IF g < MinGrade \/ g > MaxGrade THEN HTTP_422_UNPROCESSABLE_CONTENT
    ELSE HTTP_201_CREATED
CreateStatusLooseGrade(u, pid, g) ==
    IF u.role # "buyer" THEN HTTP_403_FORBIDDEN
    ELSE IF ~ActiveProduct(products, pid) THEN HTTP_404_NOT_FOUND
    ELSE IF g < MinGrade - 1 \/ g > MaxGrade THEN HTTP_422_UNPROCESSABLE_CONTENT
    ELSE HTTP_201_CREATED
CreateStatus(u, pid, g) ==
    IF u.role # "buyer" THEN HTTP_403_FORBIDDEN
    ELSE IF ~ActiveProduct(products, pid) THEN HTTP_404_NOT_FOUND
    ELSE IF g < MinGrade \/ g > MaxGrade THEN HTTP_422_UNPROCESSABLE_CONTENT
    ELSE HTTP_201_CREATED

\* the checks of delete_reviews
DeleteStatusAnyReview(u, rid) ==
    IF u.role # "admin" THEN HTTP_403_FORBIDDEN
    ELSE IF rid \notin DOMAIN reviews THEN HTTP_404_NOT_FOUND
    ELSE HTTP_200_OK
DeleteStatus(u, rid) ==
    IF u.role # "admin" THEN HTTP_403_FORBIDDEN
    ELSE IF ~ActiveReview(reviews, rid) THEN HTTP_404_NOT_FOUND
    ELSE HTTP_200_OK

\* the last request served (handler, caller, product_id, review_id, grade)
\* and what the caller received: the status and the row or rows returned
Response(op, st, u, pid, rid, g, body) ==
    [op |-> op, status |-> st, user |-> u, product_id |-> pid,
     review_id |-> rid, grade |-> g, body |-> body]

NoLoc == [user |-> NoUser, product_id |-> 0, review_id |-> 0, grade |-> 0,
          comment |-> "", avg |-> None]

\* ------------------------------------------------------------------ Init
Init ==
    /\ reviews = <<>>
    /\ products = [p \in ProductIds |->
                      [is_active |-> (p # 3), rating |-> Zero]]
    /\ resp = Response("none", 0, NoUser, 0, 0, 0, <<>>)
    /\ pc = [p \in Procs |-> "idle"]
    /\ loc = [p \in Procs |-> NoLoc]
    /\ okDeletes = [r \in 1 .. MaxReviews |-> 0]

\* --------------------------------------------- handlers, run to completion
get_all_reviews ==
    /\ \E body \in AnyOrder(reviews, AllActive(reviews)) :
          resp' = Response("get_all_reviews", HTTP_200_OK, NoUser, 0, 0, 0, body)
    /\ UNCHANGED <<reviews, products, pc, loc, okDeletes>>

get_reviews_by_product(product_id) ==
    /\ IF ~ActiveProduct(products, product_id)
       THEN resp' = Response("get_reviews_by_product", HTTP_404_NOT_FOUND,
                             NoUser, product_id, 0, 0, <<>>)
       ELSE \E body \in OrderByDateDesc(reviews, ActiveOf(reviews, product_id)) :
               resp' = Response("get_reviews_by_product", HTTP_200_OK,
                                NoUser, product_id, 0, 0, body)
    /\ UNCHANGED <<reviews, products, pc, loc, okDeletes>>

create_reviews(u, product_id, comment, grade) ==
    LET st == CreateStatus(u, product_id, grade)
    IN IF st # HTTP_201_CREATED
       THEN /\ resp' = Response("create_reviews", st, u, product_id, 0, grade, <<>>)
            /\ UNCHANGED <<reviews, products, pc, loc, okDeletes>>
       ELSE /\ Len(reviews) < MaxReviews
            /\ \E d \in Now(reviews) :
                  reviews' = InsertReview(reviews, comment, grade, u.id,
                                          product_id, d)
            /\ products' = SetRating(products, product_id,
                                     OrZero(AvgGrade(reviews', product_id)))
            /\ resp' = Response("create_reviews", st, u, product_id, Len(reviews'),
                                grade, <<reviews'[Len(reviews')]>>)
            /\ UNCHANGED <<pc, loc, okDeletes>>

delete_reviews(u, review_id) ==
    LET st == DeleteStatus(u, review_id)
    IN IF st # HTTP_200_OK
       THEN /\ resp' = Response("delete_reviews", st, u, 0, review_id, 0, <<>>)
            /\ UNCHANGED <<reviews, products, pc, loc, okDeletes>>
       ELSE /\ reviews' = SoftDelete(reviews, review_id)
            /\ products' = SetRating(products, reviews'[review_id].product_id,
                              OrZero(AvgGrade(reviews', reviews'[review_id].product_id)))
            /\ resp' = Response("delete_reviews", st, u,
                                reviews'[review_id].product_id, review_id, 0, <<>>)
            /\ UNCHANGED <<pc, loc, okDeletes>>

Next ==
    \/ get_all_reviews
    \/ \E product_id \in ProductInputs : get_reviews_by_product(product_id)
    \/ \E u \in Users, product_id \in ProductInputs, c \in Comments, g \in GradeInputs :
          create_reviews(u, product_id, c, g)
    \/ \E u \in Users, review_id \in ReviewIdInputs : delete_reviews(u, review_id)

Spec == Init /\ [][Next]_vars

\* ------------------------------------- handlers, one await at a time
AllIdle == \A p \in Procs : pc[p] = "idle"

\* create_reviews up to its last check; the insert is still to come
c_start(p, u, product_id, comment, grade) ==
    /\ pc[p] = "idle"
    /\ LET st == CreateStatus(u, product_id, grade)
       IN IF st # HTTP_201_CREATED
          THEN /\ resp' = Response("create_reviews", st, u, product_id, 0, grade, <<>>)
               /\ UNCHANGED <<reviews, products, pc, loc, okDeletes>>
          ELSE /\ Len(reviews) + Cardinality({q \in Procs : pc[q] = "c_validated"})
                     < MaxReviews
               /\ pc' = [pc EXCEPT ![p] = "c_validated"]
               /\ loc' = [loc EXCEPT ![p] =
                             [user |-> u, product_id |-> product_id,
                              review_id |-> 0, grade |-> grade,
                              comment |-> comment, avg |-> None]]
               /\ resp' = Response("create_reviews", 0, u, product_id, 0, grade, <<>>)
               /\ UNCHANGED <<reviews, products, okDeletes>>

\* db.add(new_review); await db.commit(); await db.refresh(new_review)
c_commit_review(p) ==
    /\ pc[p] = "c_validated"
    /\ \E d \in Now(reviews) :
          reviews' = InsertReview(reviews, loc[p].comment, loc[p].grade,
                                  loc[p].user.id, loc[p].product_id, d)
    /\ loc' = [loc EXCEPT ![p].review_id = Len(reviews')]
    /\ pc' = [pc EXCEPT ![p] = "c_inserted"]
    /\ UNCHANGED <<products, resp, okDeletes>>

\* avg_rating = (await db.execute(select(func.avg(...)))).scalar() or 0.0
c_read_avg(p) ==
    /\ pc[p] = "c_inserted"
    /\ loc' = [loc EXCEPT ![p].avg = OrZero(AvgGrade(reviews, loc[p].product_id))]
    /\ pc' = [pc EXCEPT ![p] = "c_avg"]
    /\ UNCHANGED <<reviews, products, resp, okDeletes>>

\* product = await db.get(ProductModel, review.product_id)
c_fetch_product(p) ==
    /\ pc[p] = "c_avg"
    /\ loc[p].product_id \in DOMAIN products
    /\ pc' = [pc EXCEPT ![p] = "c_fetched"]
    /\ UNCHANGED <<reviews, products, resp, loc, okDeletes>>

\* product.rating = avg_rating; await db.commit(); return new_review
c_commit_rating(p) ==
    /\ pc[p] = "c_fetched"
    /\ products' = SetRating(products, loc[p].product_id, loc[p].avg)
    /\ resp' = Response("create_reviews", HTTP_201_CREATED, loc[p].user,
                        loc[p].product_id, loc[p].review_id, loc[p].grade,
                        <<reviews[loc[p].review_id]>>)
    /\ pc' = [pc EXCEPT ![p] = "idle"]
    /\ loc' = [loc EXCEPT ![p] = NoLoc]
    /\ UNCHANGED <<reviews, okDeletes>>

\* delete_reviews up to its last check; the update is still to come
d_start(p, u, review_id) ==
    /\ pc[p] = "idle"
    /\ LET st == DeleteStatus(u, review_id)
       IN IF st # HTTP_200_OK
          THEN /\ resp' = Response("delete_reviews", st, u, 0, review_id, 0, <<>>)
               /\ UNCHANGED <<reviews, products, pc, loc, okDeletes>>
          ELSE /\ pc' = [pc EXCEPT ![p] = "d_checked"]
               /\ loc' = [loc EXCEPT ![p] =
                             [user |-> u,
                              product_id |-> reviews[review_id].product_id,
                              review_id |-> review_id, grade |-> 0,
                              comment |-> "", avg |-> None]]
               /\ resp' = Response("delete_reviews", 0, u, 0, review_id, 0, <<>>)
               /\ UNCHANGED <<reviews, products, okDeletes>>

\* await db.execute(update(...).values(is_active=False)); await db.commit()
d_soft_delete(p) ==
    /\ pc[p] = "d_checked"
    /\ reviews' = SoftDelete(reviews, loc[p].review_id)
    /\ pc' = [pc EXCEPT ![p] = "d_deleted"]
    /\ UNCHANGED <<products, resp, loc, okDeletes>>

d_read_avg(p) ==
    /\ pc[p] = "d_deleted"
    /\ loc' = [loc EXCEPT ![p].avg = OrZero(AvgGrade(reviews, loc[p].product_id))]
    /\ pc' = [pc EXCEPT ![p] = "d_avg"]
    /\ UNCHANGED <<reviews, products, resp, okDeletes>>

d_fetch_product(p) ==
    /\ pc[p] = "d_avg"
    /\ loc[p].product_id \in DOMAIN products
    /\ pc' = [pc EXCEPT ![p] = "d_fetched"]
    /\ UNCHANGED <<reviews, products, resp, loc, okDeletes>>

\* product.rating = avg_rating; await db.commit(); return "Review deleted"
d_commit_rating(p) ==
    /\ pc[p] = "d_fetched"
    /\ products' = SetRating(products, loc[p].product_id, loc[p].avg)
    /\ resp' = Response("delete_reviews", HTTP_200_OK, loc[p].user,
                        loc[p].product_id, loc[p].review_id, 0, <<>>)
    /\ okDeletes' = [okDeletes EXCEPT ![loc[p].review_id] = @ + 1]
    /\ pc' = [pc EXCEPT ![p] = "idle"]
    /\ loc' = [loc EXCEPT ![p] = NoLoc]
    /\ UNCHANGED reviews

\* a new request takes the first free slot
FreeSlot(p) == pc[p] = "idle" /\ \A q \in Procs : q < p => pc[q] # "idle"

NextConc ==
    \/ \E p \in Procs, u \in Users, product_id \in ConcProductInputs,
          c \in Comments, g \in ConcGradeInputs :
             FreeSlot(p) /\ c_start(p, u, product_id, c, g)
    \/ \E p \in Procs : c_commit_review(p)
    \/ \E p \in Procs : c_read_avg(p)
    \/ \E p \in Procs : c_fetch_product(p)
    \/ \E p \in Procs : c_commit_rating(p)
    \/ \E p \in Procs, u \in Users, review_id \in ReviewIdInputs :
          FreeSlot(p) /\ d_start(p, u, review_id)
    \/ \E p \in Procs : d_soft_delete(p)
    \/ \E p \in Procs : d_read_avg(p)
    \/ \E p \in Procs : d_fetch_product(p)
    \/ \E p \in Procs : d_commit_rating(p)

SpecConc == Init /\ [][NextConc]_vars

\* ------------------------------- a request in flight fails at an await
\* the exception leaves the handler; what was committed stays committed
FailRollback(p) ==
    /\ pc[p] # "idle"
    /\ reviews' =
          IF pc[p] \in {"c_inserted", "c_avg", "c_fetched"}
          THEN SubSeq(reviews, 1, Len(reviews) - 1)
          ELSE IF pc[p] \in {"d_deleted", "d_avg", "d_fetched"}
               THEN [reviews EXCEPT ![loc[p].review_id].is_active = TRUE]
               ELSE reviews
    /\ resp' = Response(IF pc[p] \in {"d_checked", "d_deleted", "d_avg", "d_fetched"}
                        THEN "delete_reviews" ELSE "create_reviews",
                        500, loc[p].user, loc[p].product_id, loc[p].review_id,
                        loc[p].grade, <<>>)
    /\ pc' = [pc EXCEPT ![p] = "idle"]
    /\ loc' = [loc EXCEPT ![p] = NoLoc]
    /\ UNCHANGED <<products, okDeletes>>
Fail(p) ==
    /\ pc[p] # "idle"
    /\ resp' = Response(IF pc[p] \in {"d_checked", "d_deleted", "d_avg", "d_fetched"}
                        THEN "delete_reviews" ELSE "create_reviews",
                        500, loc[p].user, loc[p].product_id, loc[p].review_id,
                        loc[p].grade, <<>>)
    /\ pc' = [pc EXCEPT ![p] = "idle"]
    /\ loc' = [loc EXCEPT ![p] = NoLoc]
    /\ UNCHANGED <<reviews, products, okDeletes>>

NextFail ==
    \/ AllIdle /\ \E u \in Users, product_id \in FailProductInputs,
                     c \in Comments, g \in ConcGradeInputs :
                        c_start(1, u, product_id, c, g)
    \/ c_commit_review(1)
    \/ c_read_avg(1)
    \/ c_fetch_product(1)
    \/ c_commit_rating(1)
    \/ AllIdle /\ \E u \in Users, review_id \in ReviewIdInputs : d_start(1, u, review_id)
    \/ d_soft_delete(1)
    \/ d_read_avg(1)
    \/ d_fetch_product(1)
    \/ d_commit_rating(1)
    \/ Fail(1)

SpecFail == Init /\ [][NextFail]_vars

\* ================================================================ claims
\* the active reviews of a product, and whether its rating is their mean
ActiveIds(pid) ==
    {i \in DOMAIN reviews : reviews[i].product_id = pid /\ reviews[i].is_active}

RatingIsMean(pid) ==
    LET S == ActiveIds(pid)
        r == products[pid].rating
    IN IF S = {} THEN r = <<0, 1>>
       ELSE r[2] > 0 /\ r[1] * Cardinality(S) = r[2] * SumGrades(reviews, S)

Rows(s) == {s[i] : i \in DOMAIN s}

NoDbChange == reviews' = reviews /\ products' = products

\* C1: when requests run one at a time and to completion, every product's
\* rating is the mean grade of its active reviews, or 0.0 when it has none.
C1_RatingIsMean == \A pid \in DOMAIN products : RatingIsMean(pid)

C1_Witness ==
    /\ resp.op = "delete_reviews" /\ resp.status = HTTP_200_OK
    /\ ActiveIds(resp.product_id) # {}
    /\ products[resp.product_id].rating # <<0, 1>>

\* C2: with create/delete requests on one product interleaved, whenever no
\* request on that product is in flight its rating is the mean grade of its
\* active reviews.
C2_QuiescentRatingIsMean ==
    \A pid \in DOMAIN products :
        (\A p \in Procs : pc[p] = "idle" \/ loc[p].product_id # pid)
            => RatingIsMean(pid)

\* C3: the lists returned by get_all_reviews and get_reviews_by_product hold
\* no inactive review, and get_all_reviews returns exactly the active reviews.
C3_ListsOnlyActive ==
    /\ resp.op = "get_all_reviews" =>
          /\ \A i \in DOMAIN resp.body : resp.body[i].is_active
          /\ Rows(resp.body) = {reviews[i] : i \in {k \in DOMAIN reviews : reviews[k].is_active}}
          /\ Len(resp.body) = Cardinality(Rows(resp.body))
    /\ resp.op = "get_reviews_by_product" =>
          \A i \in DOMAIN resp.body : resp.body[i].is_active

C3_Witness ==
    /\ resp.op = "get_all_reviews"
    /\ Len(resp.body) >= 1
    /\ \E i \in DOMAIN reviews : ~reviews[i].is_active

\* C4: create_reviews by a caller who is not a buyer answers Forbidden, by a
\* buyer for a missing or inactive product answers NotFound, and in both
\* cases no review is added and no rating changes.
C4_CreateRejects ==
    [][resp'.op = "create_reviews" =>
          /\ resp'.user.role # "buyer" =>
                resp'.status = HTTP_403_FORBIDDEN /\ NoDbChange
          /\ (resp'.user.role = "buyer"
                /\ (resp'.product_id \notin DOMAIN products
                      \/ ~products[resp'.product_id].is_active)) =>
                resp'.status = HTTP_404_NOT_FOUND /\ NoDbChange]_vars

C4_Witness ==
    /\ resp.op = "create_reviews" /\ resp.status = HTTP_404_NOT_FOUND
    /\ resp.user.role = "buyer" /\ resp.product_id = 3
    /\ resp.grade = 5
    /\ reviews # <<>>

\* C5 as claimed: create_reviews with a grade outside [1,5] answers
\* UnprocessableInput and stores nothing; with a grade in 1..5 it succeeds
\* and stores an active review with that grade and the caller's id.
C5_Original ==
    [][resp'.op = "create_reviews" =>
          IF resp'.grade < 1 \/ resp'.grade > 5
          THEN resp'.status = HTTP_422_UNPROCESSABLE_CONTENT /\ reviews' = reviews
          ELSE /\ resp'.status = HTTP_201_CREATED
               /\ Len(reviews') = Len(reviews) + 1
               /\ reviews'[Len(reviews')].grade = resp'.grade
               /\ reviews'[Len(reviews')].is_active
               /\ reviews'[Len(reviews')].user_id = resp'.user.id]_vars

\* C5 as amended: create_reviews called by a buyer for an existing active
\* product answers UnprocessableInput and stores nothing when the grade is
\* outside [1,5], and otherwise succeeds and stores one new active review
\* with that grade and the caller's id.
C5_GradeRange ==
    [][(resp'.op = "create_reviews" /\ resp'.user.role = "buyer"
          /\ resp'.product_id \in DOMAIN products
          /\ products[resp'.product_id].is_active) =>
          IF resp'.grade < 1 \/ resp'.grade > 5
          THEN resp'.status = HTTP_422_UNPROCESSABLE_CONTENT /\ reviews' = reviews
          ELSE /\ resp'.status = HTTP_201_CREATED
               /\ Len(reviews') = Len(reviews) + 1
               /\ \A i \in DOMAIN reviews : reviews'[i] = reviews[i]
               /\ reviews'[Len(reviews')].grade = resp'.grade
               /\ reviews'[Len(reviews')].is_active
               /\ reviews'[Len(reviews')].user_id = resp'.user.id
               /\ reviews'[Len(reviews')].product_id = resp'.product_id]_vars

C5_Witness ==
    /\ resp.op = "create_reviews" /\ resp.status = HTTP_422_UNPROCESSABLE_CONTENT
    /\ resp.grade = 6
    /\ \E i \in DOMAIN reviews : reviews[i].user_id = 1 /\ reviews[i].grade = 5

\* C6: delete_reviews by a caller who is not an admin answers Forbidden, by
\* an admin for a missing or inactive review answers NotFound, an admin's
\* delete of an active review succeeds and the same delete made right after
\* it answers NotFound, and a failing delete changes no review and no rating.
C6_DeleteRejects ==
    [][resp'.op = "delete_reviews" =>
          /\ resp'.user.role # "admin" => resp'.status = HTTP_403_FORBIDDEN
          /\ (resp'.user.role = "admin"
                /\ (resp'.review_id \notin DOMAIN reviews
                      \/ ~reviews[resp'.review_id].is_active)) =>
                resp'.status = HTTP_404_NOT_FOUND
          /\ (resp'.user.role = "admin" /\ resp'.review_id \in DOMAIN reviews
                /\ reviews[resp'.review_id].is_active) =>
                resp'.status = HTTP_200_OK
          /\ (resp'.user.role = "admin" /\ resp.op = "delete_reviews"
                /\ resp.status = HTTP_200_OK
                /\ resp.review_id = resp'.review_id) =>
                resp'.status = HTTP_404_NOT_FOUND
          /\ resp'.status # HTTP_200_OK => NoDbChange]_vars

C6_Witness ==
    /\ resp.op = "delete_reviews" /\ resp.status = HTTP_404_NOT_FOUND
    /\ resp.user.role = "admin"
    /\ resp.review_id \in DOMAIN reviews
    /\ ~reviews[resp.review_id].is_active

\* C7: a review is active when it is created; its is_active changes only
\* from true to false and only by a successful delete_reviews on it; no
\* review is ever removed and no other field of a review ever changes.
C7_OneWayFlag ==
    [][/\ Len(reviews') >= Len(reviews)
       /\ \A i \in DOMAIN reviews' :
             IF i \in DOMAIN reviews
             THEN /\ reviews'[i] = [reviews[i] EXCEPT !.is_active = reviews'[i].is_active]
                  /\ reviews'[i].is_active => reviews[i].is_active
                  /\ reviews'[i].is_active # reviews[i].is_active =>
                        /\ resp'.op = "delete_reviews"
                        /\ resp'.status = HTTP_200_OK
                        /\ resp'.review_id = i
             ELSE reviews'[i].is_active /\ reviews'[i].id = i]_vars

C7_Witness ==
    /\ Len(reviews) >= 2
    /\ ~reviews[1].is_active
    /\ reviews[2].is_active
    /\ resp.op = "create_reviews" /\ resp.status = HTTP_201_CREATED

\* C8: get_reviews_by_product answers NotFound for a missing or inactive
\* product, and otherwise returns exactly the active reviews of that product,
\* each once, latest comment_date first.
C8_ByProduct ==
    resp.op = "get_reviews_by_product" =>
       IF resp.product_id \notin DOMAIN products
             \/ ~products[resp.product_id].is_active
       THEN resp.status = HTTP_404_NOT_FOUND
       ELSE /\ resp.status = HTTP_200_OK
            /\ Rows(resp.body) =
                  {reviews[i] : i \in {k \in DOMAIN reviews :
                       reviews[k].product_id = resp.product_id /\ reviews[k].is_active}}
            /\ Len(resp.body) = Cardinality(Rows(resp.body))
            /\ \A i \in 1 .. (Len(resp.body) - 1) :
                  resp.body[i].comment_date >= resp.body[i + 1].comment_date

C8_Witness ==
    /\ resp.op = "get_reviews_by_product" /\ resp.status = HTTP_200_OK
    /\ Len(resp.body) = 2
    /\ resp.body[1].comment_date > resp.body[2].comment_date
    /\ resp.body[1].id > resp.body[2].id

\* C9: the review change and the rating update are two commits: the first
\* one changes the review and not the rating, a request that fails leaves
\* the reviews and the ratings as they are at that moment (so after the
\* first commit the review change stays and the rating keeps its old value,
\* before it nothing has changed), and only the second commit sets the rating.
FirstCommit(p) ==
    \/ pc[p] = "c_validated" /\ pc'[p] = "c_inserted"
    \/ pc[p] = "d_checked" /\ pc'[p] = "d_deleted"

SecondCommit(p) ==
    /\ pc[p] \in {"c_fetched", "d_fetched"} /\ pc'[p] = "idle"
    /\ resp'.status # 500

C9_TwoCommits ==
    [][\A p \in Procs :
          /\ (pc[p] # "idle" /\ pc'[p] = "idle" /\ resp'.status = 500) => NoDbChange
          /\ (pc[p] = "c_validated" /\ pc'[p] = "c_inserted") =>
                /\ products' = products
                /\ Len(reviews') = Len(reviews) + 1
                /\ reviews'[Len(reviews')].is_active
          /\ (pc[p] = "d_checked" /\ pc'[p] = "d_deleted") =>
                /\ products' = products
                /\ ~reviews'[loc[p].review_id].is_active
          /\ (\A q \in Procs : ~FirstCommit(q)) => reviews' = reviews
          /\ (\A q \in Procs : ~SecondCommit(q)) => products' = products]_vars

C9_Witness ==
    /\ AllIdle
    /\ resp.op = "create_reviews" /\ resp.status = 500
    /\ Len(reviews) = 1 /\ reviews[1].is_active
    /\ resp.review_id = 1
    /\ products[reviews[1].product_id].rating = <<0, 1>>
    /\ ~RatingIsMean(reviews[1].product_id)

\* C10: of all delete_reviews requests for one review, interleaved or not,
\* at most one answers "Review deleted".
C10_AtMostOneDeleted == \A rid \in DOMAIN okDeletes : okDeletes[rid] <= 1

====
